---------------------------- MODULE Spec2Model ----------------------------
(***************************************************************************)
(* Model of the macOS system monitor widget (src/ram_widget.py): the       *)
(* sampling tick (AppDelegate.onTick_), the process aggregation            *)
(* (scan_processes), the network rate computation, the history deques      *)
(* (GraphView.record, _net_history), the colour classifiers (level_rgb,    *)
(* battery_rgb), the rate formatter (fmt_rate) and the kill handler        *)
(* (AppDelegate.onKillProc_).                                              *)
(*                                                                         *)
(* Number representation.                                                  *)
(*   - System percentages (cpu, ram, gpu, battery) are integers in tenths  *)
(*     of a percent: 59.9 % is 599.                                        *)
(*   - Per-process cpu_percent is an integer in hundredths of a percent:   *)
(*     0.05 % is 5, 12.0 % is 1200.                                        *)
(*   - Network rates and the normalised network percentage are exact       *)
(*     rationals [num, den] in lowest terms (den > 0); the Python code     *)
(*     computes them in binary floating point.                             *)
(*   - Time is in whole seconds.                                           *)
(***************************************************************************)
EXTENDS Integers, Sequences, FiniteSets, TLC

(***************************************************************************)
(* Program constants                                                       *)
(***************************************************************************)
HISTORY == 30

MAX_PROC_ROWS == 30

PROC_ROW_H == 28

THRESH_LO == 60

THRESH_HI == 85

GREEN == <<30, 69, 31>>

YELLOW == <<100, 80, 0>>

RED == <<96, 26, 21>>

\* Python's None, and a value that is not None
None == <<>>

Some(v) == <<v>>

\* no exception left the handler
NoException == "none"

(***************************************************************************)
(* Bounds of the model                                                     *)
(***************************************************************************)
\* pids the operating system hands out: 1..MaxPid
MaxPid == 3

\* largest Quit-button tag the model clicks (tags run 0..MAX_PROC_ROWS-1)
MaxTag == 2

\* ticks taken under the network workload
MaxNetTicks == 3

\* ticks taken under the process workload
MaxProcTicks == 1

\* ticks taken under the system-metric workload
MaxSysTicks == 2

\* ticks taken under the long scripted workload (must exceed HISTORY)
MaxLongTicks == 40

\* the largest process table of the crowded machine
MaxCrowd == 36

\* ticks of the crowded-machine workload
MaxCrowdTicks == 1

\* ticks of the workload with unavailable metrics
MaxFailTicks == 3

\* ticks of the run-loop workload, the one of the launch included
MaxLoopTicks == 2

\* Quit clicks the window server holds for the main thread
MaxClicks == 1

\* ticks of the workload with the tab control and the collapse button
MaxUITicks == 3

(***************************************************************************)
(* Arithmetic helpers                                                      *)
(***************************************************************************)
Abs(n) == IF n < 0 THEN 0 - n ELSE n

Min(a, b) == IF a <= b THEN a ELSE b

Max(a, b) == IF a >= b THEN a ELSE b

RECURSIVE GCD(_, _)
GCD(a, b) == IF b = 0 THEN a ELSE GCD(b, a % b)

\* the rational n/d (d > 0) in lowest terms
Frac(n, d) ==
    LET g == GCD(Abs(n), d)
        s == IF n < 0 THEN 0 - 1 ELSE 1
    IN  [num |-> s * (Abs(n) \div g), den |-> d \div g]

RInt(n) == [num |-> n, den |-> 1]

RLess(a, b) == a.num * b.den < b.num * a.den

RLeq(a, b) == a.num * b.den <= b.num * a.den

RMax(a, b) == IF RLess(a, b) THEN b ELSE a

RMin(a, b) == IF RLess(b, a) THEN b ELSE a

\* a / b * 100 for b > 0
RPctOf(a, b) == Frac(a.num * b.den * 100, a.den * b.num)

\* Python's max() over a non-empty sequence of rationals
RECURSIVE RMaxSeq(_)
RMaxSeq(s) ==
    IF Len(s) = 1 THEN s[1] ELSE RMax(s[1], RMaxSeq(Tail(s)))

\* n/d (n >= 0, d > 0) rounded to the nearest integer, ties to even: the
\* rounding of Python's float formatting
RoundHalfEven(n, d) ==
    LET q == n \div d
        r == n % d
    IN  IF 2 * r < d THEN q
        ELSE IF 2 * r > d THEN q + 1
        ELSE IF q % 2 = 0 THEN q ELSE q + 1

(***************************************************************************)
(* level_rgb, battery_rgb (percentages in tenths)                          *)
(***************************************************************************)
\* level_rgb with <= for <
level_rgb_inclusive(pct) ==
    IF pct <= THRESH_LO * 10 THEN GREEN
    ELSE IF pct <= THRESH_HI * 10 THEN YELLOW
    ELSE RED

level_rgb(pct) ==
    IF pct < THRESH_LO * 10 THEN GREEN
    ELSE IF pct < THRESH_HI * 10 THEN YELLOW
    ELSE RED

\* battery_rgb with >= for >
battery_rgb_inclusive(pct) ==
    IF pct >= 400 THEN GREEN
    ELSE IF pct >= 150 THEN YELLOW
    ELSE RED

battery_rgb(pct) ==
    IF pct > 400 THEN GREEN
    ELSE IF pct > 150 THEN YELLOW
    ELSE RED

\* set_bar: the bar's fill colour (the frame width is not modelled)
set_bar(pct, color_fn_is_battery) ==
    IF color_fn_is_battery THEN battery_rgb(pct) ELSE level_rgb(pct)

(***************************************************************************)
(* fmt_rate                                                                *)
(***************************************************************************)
\* f"{x:.1f}" for a rational x >= 0
Fmt1(x) ==
    LET t == RoundHalfEven(x.num * 10, x.den)
    IN  ToString(t \div 10) \o "." \o ToString(t % 10)

\* f"{x:.0f}" for a rational x (a negative x keeps its sign, also when it
\* rounds to zero: Python prints "-0")
Fmt0(x) ==
    LET t == RoundHalfEven(Abs(x.num), x.den)
    IN  (IF x.num < 0 THEN "-" ELSE "") \o ToString(t)

\* fmt_rate with decimal units (1000, 1000000) for the binary ones
fmt_rate_decimal_units(bps) ==
    IF RLeq(RInt(1000000), bps)
        THEN Fmt1(Frac(bps.num, bps.den * 1000000)) \o " MB/s"
    ELSE IF RLeq(RInt(1000), bps)
        THEN Fmt1(Frac(bps.num, bps.den * 1000)) \o " KB/s"
    ELSE Fmt0(bps) \o " B/s"

fmt_rate(bps) ==
    IF RLeq(RInt(1048576), bps)
        THEN Fmt1(Frac(bps.num, bps.den * 1048576)) \o " MB/s"
    ELSE IF RLeq(RInt(1024), bps)
        THEN Fmt1(Frac(bps.num, bps.den * 1024)) \o " KB/s"
    ELSE Fmt0(bps) \o " B/s"

(***************************************************************************)
(* collections.deque(maxlen=HISTORY) and GraphView                         *)
(***************************************************************************)
\* a bounded history that refuses a new item when full
deque_append_drop_newest(d, v) ==
    IF Len(d) >= HISTORY THEN d ELSE Append(d, v)

\* deque.append on a bounded deque: a full deque discards its oldest item
deque_append(d, v) ==
    IF Len(d) >= HISTORY THEN Append(Tail(d), v) ELSE Append(d, v)

\* GraphView.initWithFrame_
GraphView == [vals |-> <<>>, rgb |-> GREEN]

\* GraphView.record
record(g, value, rgb) == [vals |-> deque_append(g.vals, value), rgb |-> rgb]

(***************************************************************************)
(* The operating system's processes, as psutil.process_iter reports them   *)
(***************************************************************************)
Pids == 1..MaxPid

\* pids the widget's user may not signal (os.kill raises PermissionError)
Privileged == {1}

\* p.info['name']
ProcName(pid) ==
    IF pid <= 2 THEN "chrome"
    ELSE IF pid = 3 THEN "finder"
    ELSE IF pid = 4 THEN "mds"
    ELSE "helper" \o ToString(pid)

\* the load profiles the enumeration is sampled under
Profiles == {"browsing", "idle", "background", "finderbusy", "tie"}

\* the load profiles of a machine that runs many differently named helpers
CrowdProfiles == {"swarm", "sparse", "edge", "asleep"}

\* p.info['cpu_percent'] in hundredths of a percent; None when psutil could
\* not read it
CpuSample(profile, pid) ==
    CASE profile = "browsing"   -> IF pid = 1 THEN Some(1200)
                                   ELSE IF pid = 2 THEN Some(800) ELSE Some(100)
      [] profile = "idle"       -> IF pid % 2 = 1 THEN None ELSE Some(0)
      [] profile = "background" -> Some(3)
      [] profile = "finderbusy" -> IF pid <= 2 THEN Some(50) ELSE Some(2000)
      [] profile = "tie"        -> IF pid = 2 THEN Some(0) ELSE Some(100)
      [] profile = "swarm"      -> Some(10 + ((pid * 7) % 40))
      [] profile = "sparse"     -> Some(((pid * 7) % 13) * 3)
      [] profile = "edge"       -> IF pid % 3 = 0 THEN Some(5)
                                   ELSE IF pid % 3 = 1 THEN Some(6) ELSE Some(0)
      [] profile = "asleep"     -> IF pid % 2 = 0 THEN None ELSE Some(0)

\* one psutil.process_iter(['pid', 'name', 'cpu_percent']) pass: the info of
\* every live pid, in ascending pid order
RECURSIVE process_iter_from(_, _, _)
process_iter_from(pid, alive, profile) ==
    IF \A q \in alive : q < pid THEN <<>>
    ELSE (IF pid \in alive
            THEN <<[pid |-> pid, name |-> ProcName(pid),
                    cpu_percent |-> CpuSample(profile, pid)]>>
            ELSE <<>>)
         \o process_iter_from(pid + 1, alive, profile)

process_iter(alive, profile) == process_iter_from(1, alive, profile)

(***************************************************************************)
(* scan_processes                                                          *)
(***************************************************************************)
\* position of name in the merged dict (0 when absent)
RECURSIVE IndexOfName(_, _, _)
IndexOfName(merged, name, i) ==
    IF i > Len(merged) THEN 0
    ELSE IF merged[i].name = name THEN i
    ELSE IndexOfName(merged, name, i + 1)

\* the loop body with = for +=: a later pid of a name replaces the entry
merge_one_overwrite(merged, p) ==
    LET cpu == IF p.cpu_percent = None THEN 0 ELSE p.cpu_percent[1]
        i   == IndexOfName(merged, p.name, 1)
    IN  IF i = 0
          THEN Append(merged, [name |-> p.name, cpu |-> cpu, pids |-> <<p.pid>>])
          ELSE [merged EXCEPT ![i] = [name |-> p.name, cpu |-> cpu,
                                      pids |-> <<p.pid>>]]

\* the loop body: cpu = p.info['cpu_percent'] or 0; create the entry on the
\* first pid of a name; add the cpu; append the pid
merge_one(merged, p) ==
    LET cpu == IF p.cpu_percent = None THEN 0 ELSE p.cpu_percent[1]
        i   == IndexOfName(merged, p.name, 1)
    IN  IF i = 0
          THEN Append(merged, [name |-> p.name, cpu |-> 0 + cpu,
                               pids |-> <<p.pid>>])
          ELSE [merged EXCEPT ![i] = [name |-> p.name,
                                      cpu  |-> merged[i].cpu + cpu,
                                      pids |-> Append(merged[i].pids, p.pid)]]

\* the dict `merged` after the loop, in insertion order
RECURSIVE merge_from(_, _, _)
merge_from(raw, i, merged) ==
    IF i > Len(raw) THEN merged
    ELSE LET next == merge_one(merged, raw[i])
         IN  IF Len(next) > 0 THEN merge_from(raw, i + 1, next) ELSE next

merge(raw) == merge_from(raw, 1, <<>>)

\* insert x into a sequence sorted by descending cpu, after every item whose
\* cpu is >= x.cpu (keeps equal keys in their original order)
RECURSIVE InsertDesc(_, _)
InsertDesc(s, x) ==
    IF s = <<>> THEN <<x>>
    ELSE IF s[1].cpu >= x.cpu THEN <<s[1]>> \o InsertDesc(Tail(s), x)
    ELSE <<x>> \o s

\* sorted(merged.items(), key=cpu, reverse=True): stable, descending
RECURSIVE sorted_desc_from(_, _, _)
sorted_desc_from(s, i, acc) ==
    IF i > Len(s) THEN acc
    ELSE LET next == InsertDesc(acc, s[i])
         IN  IF Len(next) > 0 THEN sorted_desc_from(s, i + 1, next) ELSE next

sorted_desc(s) == sorted_desc_from(s, 1, <<>>)

\* seq[:n]
Take(s, n) == SubSeq(s, 1, Min(Len(s), n))

IsPositive(d) == d.cpu > 0

\* the process list's threshold taken inclusively
IsListed_inclusive(d) == d.cpu >= 5

\* d['cpu'] > 0.05
IsListed(d) == d.cpu > 5

NameCpu(s) == [i \in 1..Len(s) |-> [name |-> s[i].name, cpu |-> s[i].cpu]]

\* returns (top5, proc_list) for one enumeration `raw`
scan_processes(raw) ==
    LET items == sorted_desc(merge(raw))
    IN  [top5      |-> Take(NameCpu(SelectSeq(items, IsPositive)), 5),
         proc_list |-> Take(SelectSeq(items, IsListed), MAX_PROC_ROWS)]

(***************************************************************************)
(* os.kill and the loop of onKillProc_                                     *)
(***************************************************************************)
\* os.kill(pid, SIGTERM): what the call does on the current process table
os_kill(pid, alive) ==
    IF pid \notin alive THEN "ProcessLookupError"
    ELSE IF pid \in Privileged THEN "PermissionError"
    ELSE "delivered"

\* an except clause that names PermissionError alone
caught_permission_only(exc) == exc = "PermissionError"

\* except (ProcessLookupError, PermissionError, OSError): pass
caught(exc) == exc \in {"ProcessLookupError", "PermissionError", "OSError"}

\* the loop with the try around the for statement: the first failure is
\* swallowed and ends the loop
RECURSIVE kill_loop_try_outside(_, _, _, _)
kill_loop_try_outside(pids, i, alive, log) ==
    IF i > Len(pids) THEN [log |-> log, raised |-> NoException]
    ELSE LET r    == os_kill(pids[i], alive)
             log2 == Append(log, [pid |-> pids[i], result |-> r])
         IN  IF r = "delivered"
               THEN kill_loop_try_outside(pids, i + 1, alive, log2)
               ELSE [log |-> log2,
                     raised |-> IF caught(r) THEN NoException ELSE r]

\* for pid in pids: try os.kill ... : the attempts made, in order, and the
\* exception that left the loop (NoException when it ran to its end)
RECURSIVE kill_loop(_, _, _, _)
kill_loop(pids, i, alive, log) ==
    IF i > Len(pids) THEN [log |-> log, raised |-> NoException]
    ELSE LET r    == os_kill(pids[i], alive)
             log2 == Append(log, [pid |-> pids[i], result |-> r])
         IN  IF r = "delivered" \/ caught(r)
               THEN kill_loop(pids, i + 1, alive, log2)
               ELSE [log |-> log2, raised |-> r]

(***************************************************************************)
(* Text of the labels                                                      *)
(***************************************************************************)
\* f"{x:5.1f}" for a percentage in tenths, 0 <= tenths: right-aligned in 5
Fmt5_1(tenths) ==
    (IF tenths < 100 THEN "  " ELSE IF tenths < 1000 THEN " " ELSE "")
    \o ToString(tenths \div 10) \o "." \o ToString(tenths % 10)

\* f"{n:02d}" for 0 <= n < 100
Fmt02d(n) == (IF n < 10 THEN "0" ELSE "") \o ToString(n)

\* the battery status text of onTick_
battery_status(batt) ==
    IF batt.power_plugged THEN "Charging"
    ELSE IF batt.secsleft # None /\ batt.secsleft[1] # 0 /\ batt.secsleft[1] > 0
        THEN "~" \o ToString(batt.secsleft[1] \div 3600) \o ":"
             \o Fmt02d((batt.secsleft[1] % 3600) \div 60) \o " left"
    ELSE "On Battery"

\* the mounts get_disks() found at start-up (at most 6), with the display
\* name onTick_ derives from each (mp, or the last path component)
Mounts ==
    << [mp |-> "/", display |-> "/"],
       [mp |-> "/Volumes/Backup", display |-> "Backup"] >>

\* psutil.disk_usage(mp) when it succeeds: sizes in MiB, percent in tenths
disk_usage(mp) ==
    IF mp = "/" THEN [used |-> 300 * 1024, free |-> 200 * 1024,
                      total |-> 500 * 1024, percent |-> 600]
    ELSE [used |-> 1536, free |-> 512, total |-> 2048, percent |-> 750]

\* make_disk_entry: a fresh disk entry for mount m
make_disk_entry(m) ==
    [mp |-> m.mp, display |-> m.display,
     chart |-> [pct |-> 0, avail |-> RInt(0)],
     name_lbl |-> "", avail_lbl |-> "", detail_lbl |-> "", pct_lbl |-> ""]

\* the body of the disk loop of onTick_ for one entry; failed: disk_usage
\* raised for this mount
disk_update(e, failed) ==
    IF failed THEN [e EXCEPT !.detail_lbl = "N/A"]
    ELSE LET u == disk_usage(e.mp)
             used_gb  == Frac(u.used, 1024)
             free_gb  == Frac(u.free, 1024)
             total_gb == Frac(u.total, 1024)
         IN  [e EXCEPT
                !.name_lbl   = e.display,
                !.avail_lbl  = "Avail " \o Fmt1(free_gb) \o " GB",
                !.detail_lbl = "Used " \o Fmt1(used_gb) \o " / "
                               \o Fmt1(total_gb) \o " GB",
                !.pct_lbl    = "Usage " \o Fmt1(Frac(u.percent, 10)) \o " %",
                !.chart      = [pct |-> u.percent, avail |-> free_gb]]

\* the disk loop with the try around the for statement: the first mount
\* that fails gets the marker and ends the loop
disk_loop_try_outside(entries, diskfail) ==
    [i \in 1..Len(entries) |->
        IF \E j \in 1..(i - 1) : entries[j].mp \in diskfail
          THEN entries[i]
          ELSE disk_update(entries[i], entries[i].mp \in diskfail)]

\* for mp, chart, ... in self._disk_entries: try ... except Exception;
\* diskfail: the mounts whose disk_usage raises in this tick
disk_loop(entries, diskfail) ==
    [i \in 1..Len(entries) |->
        disk_update(entries[i], entries[i].mp \in diskfail)]

(***************************************************************************)
(* State                                                                   *)
(***************************************************************************)
VARIABLES
    \* AppDelegate fields
    collapsed,      \* _collapsed
    current_tab,    \* _current_tab
    prev_net,       \* _prev_net: None or <<bytes_recv, bytes_sent>>
    prev_net_time,  \* _prev_net_time
    net_history,    \* _net_history: deque of download rates
    proc_data,      \* _proc_data: [(name, cpu, [pids]), ...]
    gpu_tick,       \* _gpu_tick
    gpu_cache,      \* _gpu_cache: None or Some(percent)
    proc_h,         \* _proc_h
    \* views
    cpu_g, ram_g, gpu_g, net_g,   \* the four GraphViews
    lbl,            \* text of _batt_lbl, _cpu_lbl, _ram_lbl, _gpu_lbl, the
                    \* five _legend_lbls, and the two rates _net_lbl shows
    bar,            \* fill colour of _batt_bar, _cpu_bar, _ram_bar, _gpu_bar
    batt_chart,     \* _batt_chart: segments and centre text
    disk_entries,   \* _disk_entries
    proc_slots,     \* _proc_slots: text of name_lbl and cpu_lbl per row
    hidden,         \* isHidden of _tab_views, _sys_views, _disk_views (one
                    \* flag per group) and of each view of _proc_views
    \* operating system
    alive,          \* the pids that exist
    \* the last run of each handler
    tick,           \* locals of the last onTick_: the enumeration, the
                    \* counters read, the rates computed, what gpu_usage
                    \* returned when it was called, the queries made
    kill,           \* the last onKillProc_ since the last tick: the tag, the
                    \* os.kill attempts, the exception that left the handler,
                    \* and the same of the call before it when that call
                    \* had the same tag
    inserted,       \* every value ever appended to each history, in order
    \* the main thread
    runloop         \* the handlers on the main thread's stack, whether the
                    \* repeating timer is due, the Quit clicks not yet
                    \* delivered (button tags)

vars == << collapsed, current_tab, prev_net, prev_net_time, net_history,
           proc_data, gpu_tick, gpu_cache, proc_h, cpu_g, ram_g, gpu_g,
           net_g, lbl, bar, batt_chart, disk_entries, proc_slots, hidden,
           alive, tick, kill, inserted, runloop >>

monitor_vars == << prev_net, prev_net_time, net_history, proc_data, gpu_tick,
                   gpu_cache, proc_h, cpu_g, ram_g, gpu_g, net_g, lbl, bar,
                   batt_chart, disk_entries, proc_slots, tick, inserted >>

\* _proc_views holds hdr_name, hdr_cpu, hsep, then name_lbl, cpu_lbl, btn,
\* sep of each row
NumProcViews == 3 + 4 * MAX_PROC_ROWS

\* positions (1-based) in _proc_views of the views of row i (0-based)
NameView(i) == 3 + 4 * i + 1

CpuView(i) == 3 + 4 * i + 2

BtnView(i) == 3 + 4 * i + 3

NoKill == [tag |-> None, log |-> <<>>, raised |-> NoException, before |-> None]

NoTick == [raw |-> <<>>, top |-> <<>>, recv |-> 0, sent |-> 0, now |-> 0,
           had_prev |-> FALSE, prev_recv |-> 0, prev_sent |-> 0, dt |-> 0,
           dl |-> RInt(0), ul |-> RInt(0), net_pct |-> RInt(0),
           gpu_polled |-> FALSE, gpu_query |-> None, batt |-> None,
           diskfail |-> {}, calls |-> <<>>]

\* the state applicationDidFinishLaunching_ and build_ui leave, before the
\* first onTick_
Constructed ==
    /\ collapsed = FALSE
    /\ current_tab = 0
    /\ prev_net = None
    /\ prev_net_time = 0
    /\ net_history = <<>>
    /\ proc_data = <<>>
    /\ gpu_tick = 0
    /\ gpu_cache = None
    /\ proc_h = 30 + MAX_PROC_ROWS * PROC_ROW_H + 8
    /\ cpu_g = GraphView
    /\ ram_g = GraphView
    /\ gpu_g = GraphView
    /\ net_g = GraphView
    /\ lbl = [batt |-> "Battery  --", cpu |-> "CPU  --", ram |-> "RAM  --",
              gpu |-> "GPU  --", net |-> [dl |-> "--", ul |-> "--"],
              legend |-> [i \in 1..5 |-> ""]]
    /\ bar = [batt |-> GREEN, cpu |-> GREEN, ram |-> GREEN, gpu |-> GREEN]
    /\ batt_chart = [segments |-> <<>>, center |-> ""]
    /\ disk_entries = [i \in 1..Len(Mounts) |-> make_disk_entry(Mounts[i])]
    /\ proc_slots = [i \in 1..MAX_PROC_ROWS |->
                        [name_lbl |-> "", cpu_lbl |-> "", cpu_rgb |-> None]]
    /\ hidden = [tab |-> FALSE, sys |-> FALSE, disk |-> TRUE,
                 proc |-> [i \in 1..NumProcViews |-> TRUE]]
    /\ tick = NoTick
    /\ kill = NoKill
    /\ inserted = [cpu |-> <<>>, ram |-> <<>>, gpu |-> <<>>, net |-> <<>>,
                   net_history |-> <<>>]

\* the main thread with no handler running and nothing pending
Idle == [running |-> <<>>, timer_due |-> FALSE, clicks |-> <<>>]

\* the widget starts on a machine that runs the processes Pids
Init == Constructed /\ alive = Pids /\ runloop = Idle

\* the widget starts on a machine that runs pids 1..n
InitCrowd ==
    Constructed /\ alive \in {1..n : n \in 0..MaxCrowd} /\ runloop = Idle

(***************************************************************************)
(* onTick_                                                                 *)
(***************************************************************************)
\* sum(c for _, c in top)
RECURSIVE SumCpu(_)
SumCpu(s) == IF s = <<>> THEN 0 ELSE s[1].cpu + SumCpu(Tail(s))

\* the network block with a missing baseline read as zero counters at time 0
net_rates_zero_baseline(prev, prev_time, recv, sent, now) ==
    LET base == IF prev # None THEN prev ELSE <<0, 0>>
        dt   == now - prev_time
    IN  IF dt > 0
          THEN [dl |-> Frac(recv - base[1], dt), ul |-> Frac(sent - base[2], dt)]
          ELSE [dl |-> RInt(0), ul |-> RInt(0)]

\* the network block with the download delta taken against bytes_sent
net_rates_from_sent(prev, prev_time, recv, sent, now) ==
    IF prev # None
      THEN LET dt == now - prev_time
           IN  IF dt > 0
                 THEN [dl |-> Frac(recv - prev[2], dt),
                       ul |-> Frac(sent - prev[2], dt)]
                 ELSE [dl |-> RInt(0), ul |-> RInt(0)]
      ELSE [dl |-> RInt(0), ul |-> RInt(0)]

\* the network block: the rates of this tick from the stored baseline
net_rates(prev, prev_time, recv, sent, now) ==
    IF prev # None
      THEN LET dt == now - prev_time
           IN  IF dt > 0
                 THEN [dl |-> Frac(recv - prev[1], dt),
                       ul |-> Frac(sent - prev[2], dt)]
                 ELSE [dl |-> RInt(0), ul |-> RInt(0)]
      ELSE [dl |-> RInt(0), ul |-> RInt(0)]

\* the baseline stored only where a rate was computed: kept as it was on the
\* elapsed <= 0 branch
net_baseline_rate_branch_only(prev, prev_time, recv, sent, now) ==
    IF prev # None /\ now - prev_time <= 0
      THEN [prev_net |-> prev, prev_net_time |-> prev_time]
      ELSE [prev_net |-> <<recv, sent>>, prev_net_time |-> now]

\* self._prev_net = (net.bytes_recv, net.bytes_sent);
\* self._prev_net_time = now: after the if/else, on every branch
net_baseline(prev, prev_time, recv, sent, now) ==
    [prev_net |-> <<recv, sent>>, prev_net_time |-> now]

\* net_max with a floor of 1 for 1024
net_max_no_floor(history) ==
    RMax(IF history # <<>> THEN RMaxSeq(history) ELSE RInt(1), RInt(1))

\* max((max(self._net_history) if self._net_history else 1024), 1024)
net_max(history) ==
    RMax(IF history # <<>> THEN RMaxSeq(history) ELSE RInt(1024), RInt(1024))

\* min(dl / net_max * 100, 100)
net_pct(dl, history) == RMin(RPctOf(dl, net_max(history)), RInt(100))

\* the legend labels and the donut chart from top5
legend_text(top, i) ==
    IF SumCpu(top) > 0
      THEN IF i <= Len(top)
             THEN "  " \o top[i].name \o "  "
                  \o Fmt1(Frac(top[i].cpu, 100)) \o "%"
             ELSE ""
      ELSE ""

chart_data(top) ==
    LET total_cpu == SumCpu(top)
    IN  IF total_cpu > 0
          THEN [segments |-> [i \in 1..Len(top) |->
                                [share |-> Frac(top[i].cpu, total_cpu),
                                 color |-> (i - 1) % 5]],
                center   |-> Fmt0(Frac(total_cpu, 100)) \o "%"]
          ELSE [segments |-> <<>>, center |-> "0%"]

\* the process-tab rows: text and colour of the rows that have a group; the
\* other rows keep what they showed
slots_update(slots, procs) ==
    [i \in 1..MAX_PROC_ROWS |->
        IF i - 1 < Len(procs)
          THEN [name_lbl |-> procs[i].name,
                cpu_lbl  |-> Fmt1(Frac(procs[i].cpu, 100)) \o "%",
                cpu_rgb  |-> level_rgb(procs[i].cpu \div 10)]
          ELSE slots[i]]

\* the loop with h = (i > visible): the first empty row stays shown
rows_hidden_off_by_one(proc_hidden, visible, with_sep_idx) ==
    [k \in 1..NumProcViews |->
        IF k <= 3 THEN proc_hidden[k]
        ELSE LET i == (k - 4) \div 4
             IN  IF k \in {NameView(i), CpuView(i), BtnView(i)}
                    \/ (with_sep_idx /\ k = (i * 4 + 3) + 1)
                   THEN i > visible
                   ELSE proc_hidden[k]]

\* the loop that hides the rows from `visible` on: name_lbl, cpu_lbl and btn
\* of row i, and _proc_views[i * 4 + 3]
rows_hidden(proc_hidden, visible, with_sep_idx) ==
    [k \in 1..NumProcViews |->
        IF k <= 3 THEN proc_hidden[k]
        ELSE LET i == (k - 4) \div 4
             IN  IF k \in {NameView(i), CpuView(i), BtnView(i)}
                    \/ (with_sep_idx /\ k = (i * 4 + 3) + 1)
                   THEN i >= visible
                   ELSE proc_hidden[k]]

\* the calls of a handler that enumerates the processes again for the
\* process tab
tick_calls_scan_twice(polled, entries) ==
    << "sensors_battery", "process_iter", "cpu_percent", "virtual_memory" >>
    \o (IF polled THEN << "gpu_usage" >> ELSE << >>)
    \o << "net_io_counters", "time" >>
    \o [i \in 1..Len(entries) |-> "disk_usage"]
    \o << "process_iter" >>

\* the operating-system queries one run of onTick_ makes, in the order of
\* its statements: sensors_battery (558), process_iter inside
\* scan_processes (577), cpu_percent (600), virtual_memory (606), gpu_usage
\* when due (618), net_io_counters and time (628-629), disk_usage per entry
\* (655); the process tab block (670-696) reads the local procs
tick_calls(polled, entries) ==
    << "sensors_battery", "process_iter", "cpu_percent", "virtual_memory" >>
    \o (IF polled THEN << "gpu_usage" >> ELSE << >>)
    \o << "net_io_counters", "time" >>
    \o [i \in 1..Len(entries) |-> "disk_usage"]

\* the poll taken on the odd ticks
gpu_due_odd(tickno) == tickno % 2 = 1

\* if self._gpu_tick % 2 == 0, after self._gpu_tick += 1
gpu_due(tickno) == tickno % 2 = 0

\* one run of onTick_ on the readings `in` the operating system returns
onTick_(in) ==
    LET raw     == process_iter(alive, in.profile)
        scan    == scan_processes(raw)
        top     == scan.top5
        procs   == scan.proc_list
        tickno  == gpu_tick + 1
        polled  == gpu_due(tickno)
        gpct    == IF polled THEN in.gpu ELSE gpu_cache
        rates   == net_rates(prev_net, prev_net_time, in.recv, in.sent, in.now)
        dl      == rates.dl
        ul      == rates.ul
        hist    == deque_append(net_history, dl)
        npct    == net_pct(dl, hist)
        visible == Min(Len(procs), MAX_PROC_ROWS)
    IN
    \* Battery
    /\ lbl' = [lbl EXCEPT
         !.batt = IF in.batt # None
                    THEN "Battery  " \o Fmt0(Frac(in.batt[1].percent, 10))
                         \o "%  " \o battery_status(in.batt[1])
                    ELSE "Battery  N/A",
         !.legend = [i \in 1..5 |-> legend_text(top, i)],
         !.cpu = "CPU   " \o Fmt5_1(in.cpu) \o " %",
         !.ram = "RAM   " \o Fmt1(Frac(in.mem.used, 1024)) \o "/"
                 \o Fmt1(Frac(in.mem.total, 1024)) \o " GB ("
                 \o Fmt1(Frac(in.mem.percent, 10)) \o "%)",
         !.gpu = IF gpct # None THEN "GPU   " \o Fmt5_1(gpct[1]) \o " %"
                                ELSE "GPU   N/A",
         !.net = [dl |-> fmt_rate(dl), ul |-> fmt_rate(ul)]]
    /\ bar' = [bar EXCEPT
         !.batt = IF in.batt # None THEN set_bar(in.batt[1].percent, TRUE)
                                    ELSE @,
         !.cpu = set_bar(in.cpu, FALSE),
         !.ram = set_bar(in.mem.percent, FALSE),
         !.gpu = IF gpct # None THEN set_bar(gpct[1], FALSE) ELSE @]
    \* process scan
    /\ proc_data' = procs
    /\ batt_chart' = chart_data(top)
    \* CPU, RAM
    /\ cpu_g' = record(cpu_g, in.cpu, level_rgb(in.cpu))
    /\ ram_g' = record(ram_g, in.mem.percent, level_rgb(in.mem.percent))
    \* GPU
    /\ gpu_tick' = tickno
    /\ gpu_cache' = gpct
    /\ gpu_g' = IF gpct # None THEN record(gpu_g, gpct[1], level_rgb(gpct[1]))
                               ELSE gpu_g
    \* Network
    /\ prev_net' = net_baseline(prev_net, prev_net_time, in.recv, in.sent,
                                in.now).prev_net
    /\ prev_net_time' = net_baseline(prev_net, prev_net_time, in.recv, in.sent,
                                     in.now).prev_net_time
    /\ net_history' = hist
    /\ net_g' = record(net_g, npct, GREEN)
    \* Disk
    /\ disk_entries' = disk_loop(disk_entries, in.diskfail)
    \* Process tab
    /\ proc_slots' = slots_update(proc_slots, procs)
    /\ proc_h' = 30 + visible * PROC_ROW_H + 8
    /\ hidden' = IF current_tab = 2 /\ ~collapsed
                   THEN [hidden EXCEPT !.proc = rows_hidden(@, visible, TRUE)]
                   ELSE hidden
    \* bookkeeping of the run
    /\ tick' = [raw |-> raw, top |-> top, recv |-> in.recv, sent |-> in.sent,
                now |-> in.now, had_prev |-> prev_net # None,
                prev_recv |-> IF prev_net # None THEN prev_net[1] ELSE 0,
                prev_sent |-> IF prev_net # None THEN prev_net[2] ELSE 0,
                dt |-> in.now - prev_net_time, dl |-> dl, ul |-> ul,
                net_pct |-> npct, gpu_polled |-> polled,
                gpu_query |-> IF polled THEN Some(in.gpu) ELSE None,
                batt |-> in.batt,
                diskfail |-> in.diskfail,
                calls |-> tick_calls(polled, disk_entries)]
    /\ inserted' = [inserted EXCEPT
         !.cpu = Append(@, in.cpu),
         !.ram = Append(@, in.mem.percent),
         !.gpu = IF gpct # None THEN Append(@, gpct[1]) ELSE @,
         !.net = Append(@, npct),
         !.net_history = Append(@, dl)]
    /\ kill' = NoKill
    /\ UNCHANGED << collapsed, current_tab, alive >>

(***************************************************************************)
(* onKillProc_                                                             *)
(***************************************************************************)
\* the pids of a kill log whose signal was delivered
Delivered(log) == {log[i].pid : i \in {j \in 1..Len(log) : log[j].result = "delivered"}}

\* os.kill's effect on the process table: the processes that receive
\* SIGTERM exit, except those in `survivors` (they handle the signal)
after_kill(alive_now, log, survivors) ==
    alive_now \ (Delivered(log) \ survivors)

\* an index past the end taken as the last entry
kill_target_clamped(procs, idx) ==
    IF procs = <<>> THEN <<>>
    ELSE procs[Min(idx, Len(procs) - 1) + 1].pids

\* if idx < len(self._proc_data): _name, _cpu, pids = self._proc_data[idx];
\* no pid otherwise
kill_target(procs, idx) ==
    IF idx < Len(procs) THEN procs[idx + 1].pids ELSE <<>>

\* one run of onKillProc_ for the button with tag `tag`
onKillProc_(tag) ==
    LET idx == tag
        res == kill_loop(kill_target(proc_data, idx), 1, alive, <<>>)
    IN  /\ \E survivors \in SUBSET Delivered(res.log) :
              alive' = after_kill(alive, res.log, survivors)
        /\ kill' = [tag    |-> Some(tag),
                    log    |-> res.log,
                    raised |-> res.raised,
                    before |-> IF kill.tag = Some(tag)
                                 THEN Some([log |-> kill.log,
                                            raised |-> kill.raised])
                                 ELSE None]
        /\ UNCHANGED << collapsed, current_tab, hidden >>
        /\ UNCHANGED monitor_vars

(***************************************************************************)
(* onTabChanged_, onToggle_                                                *)
(***************************************************************************)
\* one run of onTabChanged_ with segment `seg` selected
onTabChanged_(seg) ==
    LET visible == Min(Len(proc_data), MAX_PROC_ROWS)
        all     == [k \in 1..NumProcViews |-> 2 # seg]
    IN  /\ current_tab' = seg
        /\ hidden' = [hidden EXCEPT
             !.sys  = (0 # seg),
             !.disk = (1 # seg),
             !.proc = IF seg = 2 THEN rows_hidden(all, visible, TRUE) ELSE all]
        /\ UNCHANGED << collapsed, alive, kill >>
        /\ UNCHANGED monitor_vars

\* one run of onToggle_
onToggle_ ==
    LET visible == Min(Len(proc_data), MAX_PROC_ROWS)
        shown   == [k \in 1..NumProcViews |-> 2 # current_tab]
    IN  /\ collapsed' = ~collapsed
        /\ hidden' =
             IF ~collapsed
               THEN [tab |-> TRUE, sys |-> TRUE, disk |-> TRUE,
                     proc |-> [k \in 1..NumProcViews |-> TRUE]]
               ELSE [tab  |-> FALSE,
                     sys  |-> (0 # current_tab),
                     disk |-> (1 # current_tab),
                     proc |-> IF current_tab = 2
                                THEN rows_hidden(shown, visible, FALSE)
                                ELSE shown]
        /\ UNCHANGED << current_tab, alive, kill >>
        /\ UNCHANGED monitor_vars

(***************************************************************************)
(* The operating system                                                    *)
(***************************************************************************)
\* a process exits on its own
ProcessExit(pid) ==
    /\ pid \in alive
    /\ alive' = alive \ {pid}
    /\ UNCHANGED << collapsed, current_tab, hidden, kill >>
    /\ UNCHANGED monitor_vars

(***************************************************************************)
(* Readings the operating system returns to a tick                         *)
(***************************************************************************)
\* time.time() of this tick: `d` seconds after the previous tick's reading
Clock(d) == IF prev_net = None THEN 100 ELSE prev_net_time + d

\* virtual_memory() with the given percentage (sizes in MiB)
Memory(percent) ==
    [used |-> (8192 * percent) \div 1000, total |-> 8192, percent |-> percent]

\* an unremarkable reading: no battery, an idle machine, no GPU, steady
\* counters, every mount readable
BaseIn ==
    [batt |-> None, profile |-> "idle", cpu |-> 125, mem |-> Memory(500),
     gpu |-> None, recv |-> 1000000, sent |-> 500, now |-> Clock(2),
     diskfail |-> {}]

\* net_io_counters(): <<bytes_recv, bytes_sent>>; a lower value than the
\* previous reading is a counter reset
NetCounters ==
    { <<1000000, 500>>, <<1000512, 500>>, <<1002048, 400>>,
      <<3000000, 1525>>, <<3097152, 2548>> }

\* the clock moves on by 1 or 2 seconds, stands still, or steps back
ClockSteps == {0 - 1, 0, 1, 2}

NetInputs ==
    { [BaseIn EXCEPT !.recv = c[1], !.sent = c[2], !.now = Clock(d)] :
        c \in NetCounters, d \in ClockSteps }

ProcInputs == { [BaseIn EXCEPT !.profile = pr] : pr \in Profiles }

\* sensors_battery()
Batteries ==
    { None,
      Some([percent |-> 410, power_plugged |-> TRUE,  secsleft |-> Some(0 - 2)]),
      Some([percent |-> 400, power_plugged |-> FALSE, secsleft |-> Some(5400)]),
      Some([percent |-> 160, power_plugged |-> FALSE, secsleft |-> Some(0 - 1)]),
      Some([percent |-> 150, power_plugged |-> FALSE, secsleft |-> Some(59)]) }

\* the system metrics, varied one at a time around BaseIn
SysInputs ==
    { [BaseIn EXCEPT !.cpu = c] : c \in {0, 599, 600, 849, 850, 1000} }
    \cup { [BaseIn EXCEPT !.mem = Memory(m)] : m \in {599, 600, 849, 850} }
    \cup { [BaseIn EXCEPT !.gpu = g] :
             g \in {None, Some(590), Some(600), Some(840), Some(850)} }
    \cup { [BaseIn EXCEPT !.batt = b] : b \in Batteries }
    \cup { [BaseIn EXCEPT !.diskfail = f] :
             f \in {{"/"}, {"/Volumes/Backup"}, {"/", "/Volumes/Backup"}} }

\* the scripted reading of tick k of a long run: every stream changes from
\* tick to tick, the GPU query fails now and then, the counters only grow
Script(k) ==
    [batt |-> None,
     profile |-> IF k % 3 = 0 THEN "browsing" ELSE "background",
     cpu |-> (k * 37) % 1001,
     mem |-> Memory((k * 53) % 1001),
     gpu |-> IF k % 16 = 0 THEN None ELSE Some(((k * 7) % 101) * 10),
     recv |-> (IF prev_net = None THEN 1000000 ELSE prev_net[1])
              + ((k * 7) % 11) * 100000,
     sent |-> (IF prev_net = None THEN 500 ELSE prev_net[2]) + k * 100,
     now |-> Clock(2),
     diskfail |-> {}]

LongInputs(k) ==
    {Script(k)} \cup (IF k <= 3 THEN {[Script(k) EXCEPT !.cpu = 1000 - k,
                                                       !.gpu = Some(10 * k)]}
                                ELSE {})

(***************************************************************************)
(* Specifications: the same handlers under different workloads             *)
(***************************************************************************)
TickNet ==
    /\ gpu_tick < MaxNetTicks /\ \E in \in NetInputs : onTick_(in)
    /\ UNCHANGED runloop

TickProc ==
    /\ gpu_tick < MaxProcTicks /\ \E in \in ProcInputs : onTick_(in)
    /\ UNCHANGED runloop

TickSys ==
    /\ gpu_tick < MaxSysTicks /\ \E in \in SysInputs : onTick_(in)
    /\ UNCHANGED runloop

TickLong ==
    /\ gpu_tick < MaxLongTicks /\ \E in \in LongInputs(gpu_tick + 1) : onTick_(in)
    /\ UNCHANGED runloop

\* applicationDidFinishLaunching_ runs the first onTick_ itself; the run loop
\* delivers clicks only after it has returned
Launched == gpu_tick > 0

Kill ==
    /\ Launched /\ \E tag \in 0..MaxTag : onKillProc_(tag)
    /\ UNCHANGED runloop

Exit == (\E pid \in Pids : ProcessExit(pid)) /\ UNCHANGED runloop

\* the network workload
NextNet == TickNet

SpecNet == Init /\ [][NextNet]_vars

\* the process workload: ticks, kills, processes exiting
NextProc == TickProc \/ Kill \/ Exit

SpecProc == Init /\ [][NextProc]_vars

\* the system-metric workload
NextSys == TickSys

SpecSys == Init /\ [][NextSys]_vars

\* the long run
NextLong == TickLong

SpecLong == Init /\ [][NextLong]_vars

\* the crowded machine: more groups than either view holds
CrowdInputs == { [BaseIn EXCEPT !.profile = pr] : pr \in CrowdProfiles }

TickCrowd ==
    /\ gpu_tick < MaxCrowdTicks /\ \E in \in CrowdInputs : onTick_(in)
    /\ UNCHANGED runloop

NextCrowd == TickCrowd

SpecCrowd == InitCrowd /\ [][NextCrowd]_vars

\* every combination of an absent battery, a failing GPU query and failing
\* mounts
FailInputs ==
    { [BaseIn EXCEPT !.batt = b, !.gpu = g, !.diskfail = f] :
        b \in {None, Some([percent |-> 400, power_plugged |-> FALSE,
                           secsleft |-> Some(5400)])},
        g \in {None, Some(590)},
        f \in SUBSET {Mounts[i].mp : i \in 1..Len(Mounts)} }

TickFail ==
    /\ gpu_tick < MaxFailTicks /\ \E in \in FailInputs : onTick_(in)
    /\ UNCHANGED runloop

NextFail == TickFail

SpecFail == Init /\ [][NextFail]_vars

(***************************************************************************)
(* The main thread: applicationDidFinishLaunching_ schedules the repeating *)
(* timer on the run loop of the thread it runs on and calls onTick_        *)
(* itself; app.run() then serves the timer and the buttons' actions from   *)
(* that run loop, one handler at a time.  A handler's effect is applied    *)
(* when it returns.                                                        *)
(***************************************************************************)
\* every variable but runloop
app_vars == << collapsed, current_tab, hidden, alive, kill, monitor_vars >>

\* the last activation on the stack
Top(stack) == stack[Len(stack)]

\* the stack without its last activation
Pop(stack) == SubSeq(stack, 1, Len(stack) - 1)

\* the ticks started so far
TicksStarted ==
    gpu_tick + Cardinality({i \in 1..Len(runloop.running) :
                              runloop.running[i] = "onTick_"})

\* a timer that fires on a thread of its own, whatever the main thread does
may_dispatch_own_thread(rl) == TRUE

\* the run loop takes its next source only after the handler it called has
\* returned
may_dispatch(rl) == rl.running = <<>>

\* applicationDidFinishLaunching_ has scheduled the timer (546-552) and is
\* in its call of onTick_ (553)
InitLoop ==
    /\ Constructed
    /\ alive = Pids
    /\ runloop = [running |-> << "onTick_" >>, timer_due |-> FALSE,
                  clicks |-> <<>>]

\* TICK seconds have passed since the timer last fired; a fire that is
\* already due is not counted twice
TimerElapses ==
    /\ runloop' = [runloop EXCEPT !.timer_due = TRUE]
    /\ UNCHANGED app_vars

\* the user clicks the Quit button with tag `tag`
ClickQuit ==
    /\ Len(runloop.clicks) < MaxClicks
    /\ \E tag \in 0..MaxTag :
          runloop' = [runloop EXCEPT !.clicks = Append(@, tag)]
    /\ UNCHANGED app_vars

\* the run loop calls onTick_ for the due timer
TimerFires ==
    /\ may_dispatch(runloop)
    /\ runloop.timer_due
    /\ TicksStarted < MaxLoopTicks
    /\ runloop' = [runloop EXCEPT !.running = Append(@, "onTick_"),
                                  !.timer_due = FALSE]
    /\ UNCHANGED app_vars

\* the run loop calls onKillProc_ for the oldest click
ClickDelivered ==
    /\ may_dispatch(runloop)
    /\ runloop.clicks # <<>>
    /\ runloop' = [runloop EXCEPT !.running = Append(@, "onKillProc_")]
    /\ UNCHANGED app_vars

LoopInputs == { [BaseIn EXCEPT !.profile = pr] : pr \in {"browsing", "idle"} }

\* onTick_ returns
TickReturns ==
    /\ runloop.running # <<>>
    /\ Top(runloop.running) = "onTick_"
    /\ \E in \in LoopInputs : onTick_(in)
    /\ runloop' = [runloop EXCEPT !.running = Pop(@)]

\* onKillProc_ returns
KillReturns ==
    /\ runloop.running # <<>>
    /\ Top(runloop.running) = "onKillProc_"
    /\ onKillProc_(Head(runloop.clicks))
    /\ runloop' = [runloop EXCEPT !.running = Pop(@), !.clicks = Tail(@)]

NextLoop ==
    \/ TimerElapses \/ ClickQuit \/ TimerFires \/ ClickDelivered
    \/ TickReturns \/ KillReturns

SpecLoop == InitLoop /\ [][NextLoop]_vars

\* the user at the widget: ticks, the tab control (clickable while shown),
\* the collapse button, processes exiting
TabChanged ==
    /\ Launched /\ ~hidden.tab /\ \E seg \in 0..2 : onTabChanged_(seg)
    /\ UNCHANGED runloop

Toggle == Launched /\ onToggle_ /\ UNCHANGED runloop

\* enumerations that give the process list 2, 0 and 1 groups, and 2 groups
\* in the other order
UIInputs ==
    { [BaseIn EXCEPT !.profile = pr] :
        pr \in {"browsing", "idle", "background", "finderbusy"} }

TickUI ==
    /\ gpu_tick < MaxUITicks /\ \E in \in UIInputs : onTick_(in)
    /\ UNCHANGED runloop

NextUI == TickUI \/ TabChanged \/ Toggle

SpecUI == Init /\ [][NextUI]_vars

(***************************************************************************)
(* Claims                                                                  *)
(***************************************************************************)
\* the last n items of a sequence
LastN(s, n) == SubSeq(s, Len(s) - n + 1, Len(s))

\* a history holds the last min(N, 30) of the N values appended to it
HoldsLast30(buffer, appended) ==
    /\ Len(buffer) = Min(Len(appended), 30)
    /\ buffer = LastN(appended, Min(Len(appended), 30))

\* C1: every history buffer (the CPU, RAM, GPU and network graph buffers and
\* the download-rate history) has length min(N, 30) after N insertions and
\* holds the last 30 inserted values in insertion order once N > 30.
C1_RingBuffers ==
    /\ HoldsLast30(cpu_g.vals, inserted.cpu)
    /\ HoldsLast30(ram_g.vals, inserted.ram)
    /\ HoldsLast30(gpu_g.vals, inserted.gpu)
    /\ HoldsLast30(net_g.vals, inserted.net)
    /\ HoldsLast30(net_history, inserted.net_history)

\* every buffer has evicted: more than 30 values went into each, the oldest
\* went first
C1_Witness ==
    /\ Len(inserted.cpu) > 30 /\ Len(inserted.ram) > 30
    /\ Len(inserted.gpu) > 30 /\ Len(inserted.net) > 30
    /\ Len(inserted.net_history) > 30
    /\ Len(gpu_g.vals) = 30
    /\ cpu_g.vals[1] # inserted.cpu[1]
    /\ cpu_g.vals[30] = inserted.cpu[Len(inserted.cpu)]

\* the raw cpu of the pids of one name, summed over the enumeration (a cpu
\* psutil could not read counts as 0)
RECURSIVE RawCpuOf(_, _)
RawCpuOf(raw, name) ==
    IF raw = <<>> THEN 0
    ELSE (IF raw[1].name = name /\ raw[1].cpu_percent # None
            THEN raw[1].cpu_percent[1] ELSE 0)
         + RawCpuOf(Tail(raw), name)

\* how often pid occurs in the pid lists of the groups
Occurrences(groups, pid) ==
    Cardinality({ <<k, j>> \in (1..Len(groups)) \X (1..MaxPid) :
                    j <= Len(groups[k].pids) /\ groups[k].pids[j] = pid })

\* groups is a correct merge of the enumeration raw
MergedRight(groups, raw) ==
    /\ \A k \in 1..Len(groups) :
          /\ groups[k].cpu = RawCpuOf(raw, groups[k].name)
          /\ \A j \in 1..Len(groups[k].pids) :
                \E i \in 1..Len(raw) : /\ raw[i].pid = groups[k].pids[j]
                                       /\ raw[i].name = groups[k].name
    /\ \A i \in 1..Len(raw) : Occurrences(groups, raw[i].pid) = 1
    /\ \A k1, k2 \in 1..Len(groups) :
          groups[k1].name = groups[k2].name => k1 = k2

\* C2: the merged groups of one enumeration carry, per name, the sum of the
\* raw cpu of the pids of that name, and their pid lists partition the
\* enumerated pids (none lost, none duplicated); the stored process list is
\* made of such groups.
C2_MergeCorrect ==
    /\ MergedRight(merge(tick.raw), tick.raw)
    /\ \A e \in 1..Len(proc_data) :
          \E k \in 1..Len(merge(tick.raw)) : merge(tick.raw)[k] = proc_data[e]

\* the spec's scenario: chrome 12.0 + 8.0 on pids 1 and 2, finder 1.0 on 3
C2_Witness ==
    /\ tick.raw = << [pid |-> 1, name |-> "chrome", cpu_percent |-> Some(1200)],
                     [pid |-> 2, name |-> "chrome", cpu_percent |-> Some(800)],
                     [pid |-> 3, name |-> "finder", cpu_percent |-> Some(100)] >>
    /\ proc_data = << [name |-> "chrome", cpu |-> 2000, pids |-> <<1, 2>>],
                      [name |-> "finder", cpu |-> 100, pids |-> <<3>>] >>

\* a rate of the last tick is right for its counter: not negative when the
\* counter did not decrease, zero when it did
RateRight(rate, curr, prev) ==
    /\ curr >= prev => rate.num >= 0
    /\ curr < prev => rate = RInt(0)

\* C3: between two consecutive ticks the download and upload rates are >= 0
\* when the cumulative counter did not decrease, are 0 when the counter is
\* lower than the stored one (a reset), and the baseline becomes the current
\* counters either way.
C3_RatesNonNegative ==
    tick.had_prev =>
        /\ RateRight(tick.dl, tick.recv, tick.prev_recv)
        /\ RateRight(tick.ul, tick.sent, tick.prev_sent)
        /\ prev_net = <<tick.recv, tick.sent>>

\* the colour of the Normal / Warning / Critical tier p falls in, p in
\* tenths of a percent
TierColour(p) ==
    CASE p < 600 -> GREEN
      [] p >= 600 /\ p < 850 -> YELLOW
      [] p >= 850 -> RED

\* a graph's colour is the tier of the value recorded last
GraphTier(g) == g.vals # <<>> => g.rgb = TierColour(g.vals[Len(g.vals)])

\* C4: level_rgb maps p to Normal (GREEN) iff p < 60, Warning (YELLOW) iff
\* 60 <= p < 85, Critical (RED) iff p >= 85 (59.9 Normal, 60.0 Warning, 84.9
\* Warning, 85.0 Critical), whichever metric p belongs to.
C4_LevelTiers ==
    /\ GraphTier(cpu_g) /\ GraphTier(ram_g) /\ GraphTier(gpu_g)
    /\ gpu_tick > 0 => /\ bar.cpu = TierColour(cpu_g.vals[Len(cpu_g.vals)])
                       /\ bar.ram = TierColour(ram_g.vals[Len(ram_g.vals)])
    /\ \A g \in {cpu_g, ram_g, gpu_g} :
          g.vals # <<>> =>
             LET p == g.vals[Len(g.vals)]
             IN  /\ p = 599 => g.rgb = GREEN
                 /\ p = 600 => g.rgb = YELLOW
                 /\ p = 849 => g.rgb = YELLOW
                 /\ p = 850 => g.rgb = RED

\* 59.9 then 60.0 on the CPU graph: the colour turned to Warning exactly at 60
C4_Witness ==
    /\ cpu_g.vals = <<599, 600>>
    /\ cpu_g.rgb = YELLOW
    /\ bar.cpu = YELLOW

\* C5: battery_rgb maps p to Normal (GREEN) iff p > 40, Warning (YELLOW) iff
\* 15 < p <= 40, Critical (RED) iff p <= 15 (41 Normal, 40 Warning, 16
\* Warning, 15 Critical).
C5_BatteryTiers ==
    tick.batt # None =>
        LET p == tick.batt[1].percent
        IN  /\ bar.batt = GREEN  <=> p > 400
            /\ bar.batt = YELLOW <=> (150 < p /\ p <= 400)
            /\ bar.batt = RED    <=> p <= 150
            /\ p = 410 => bar.batt = GREEN
            /\ p = 400 => bar.batt = YELLOW
            /\ p = 160 => bar.batt = YELLOW
            /\ p = 150 => bar.batt = RED

\* a battery at exactly 40 %: Warning, not Normal
C5_Witness ==
    /\ tick.batt # None
    /\ tick.batt[1].percent = 400
    /\ bar.batt = YELLOW

\* text shows the rational x = n/d (x >= 0) with k decimals (k = 0 or 1),
\* followed by unit: the digits are those of a nearest multiple of 10^-k
ShowsRounded(text, n, d, k, unit) ==
    LET scale == IF k = 1 THEN 10 ELSE 1
        q     == (n * scale) \div d
    IN  \E t \in {q, q + 1} :
          /\ 2 * Abs(n * scale - t * d) <= d
          /\ text = (IF k = 1
                       THEN ToString(t \div 10) \o "." \o ToString(t % 10)
                       ELSE ToString(t)) \o unit

\* the unit ladder of the claim for a rate r >= 0
LadderRight(text, r) ==
    /\ RLess(r, RInt(1024)) => ShowsRounded(text, r.num, r.den, 0, " B/s")
    /\ (RLeq(RInt(1024), r) /\ RLess(r, RInt(1048576)))
          => ShowsRounded(text, r.num, r.den * 1024, 1, " KB/s")
    /\ RLeq(RInt(1048576), r)
          => ShowsRounded(text, r.num, r.den * 1048576, 1, " MB/s")
    /\ r = RInt(512) => text = "512 B/s"
    /\ r = RInt(2048) => text = "2.0 KB/s"
    /\ r = RInt(2097152) => text = "2.0 MB/s"

\* C6: for every rate r >= 0 fmt_rate shows B/s with no decimals when
\* r < 1024, r/1024 KB/s with one decimal when 1024 <= r < 1048576, and
\* r/1048576 MB/s with one decimal from 1048576 on; 512 gives "512 B/s",
\* 2048 "2.0 KB/s", 2097152 "2.0 MB/s".
C6_RateLadder ==
    gpu_tick > 0 =>
        /\ tick.dl.num >= 0 => LadderRight(lbl.net.dl, tick.dl)
        /\ tick.ul.num >= 0 => LadderRight(lbl.net.ul, tick.ul)

\* one tick shows 2097152 B/s down and 2048 B/s up
C6_Witness ==
    /\ tick.dl = RInt(2097152) /\ lbl.net.dl = "2.0 MB/s"
    /\ tick.ul = RInt(2048) /\ lbl.net.ul = "2.0 KB/s"

\* the scenario of C7: two ticks one second apart, bytes_recv 1,000,000 then
\* 3,000,000
C7_Scenario ==
    /\ tick.had_prev
    /\ tick.dt = 1
    /\ tick.prev_recv = 1000000
    /\ tick.recv = 3000000

\* C7 as claimed: in that scenario the download rate is 2,000,000 B/s and
\* is shown as "2.0 MB/s".
C7_Claimed ==
    C7_Scenario => (tick.dl = RInt(2000000) /\ lbl.net.dl = "2.0 MB/s")

\* C7: in that scenario the download rate is 2,000,000 B/s and is shown as
\* "1.9 MB/s" (2,000,000 / 1,048,576 = 1.907...).
C7_Shown ==
    C7_Scenario => (tick.dl = RInt(2000000) /\ lbl.net.dl = "1.9 MB/s")

C7_Witness == C7_Scenario /\ lbl.net.dl = "1.9 MB/s"

\* m is the largest rate of the history
IsMaxOf(m, history) ==
    /\ \E i \in 1..Len(history) : history[i] = m
    /\ \A i \in 1..Len(history) : RLeq(history[i], m)

\* v = min(100, dl / max(m, 1024) * 100)
IsNormalised(v, dl, m) ==
    LET floor == IF RLess(m, RInt(1024)) THEN RInt(1024) ELSE m
        pct   == Frac(dl.num * floor.den * 100, dl.den * floor.num)
    IN  v = IF RLess(RInt(100), pct) THEN RInt(100) ELSE pct

\* C8: the value a tick puts into the network graph is
\* min(100, dl / max(M, 1024) * 100), dl the tick's download rate and M the
\* largest of the retained download rates (this tick's included); so it is
\* exactly 100 when dl >= 1024 is the peak of the window, and never above 100.
C8_NetNormalised ==
    gpu_tick > 0 =>
        LET v  == net_g.vals[Len(net_g.vals)]
            dl == tick.dl
        IN  /\ net_history[Len(net_history)] = dl
            /\ \A m \in {net_history[i] : i \in 1..Len(net_history)} :
                  IsMaxOf(m, net_history) =>
                     /\ IsNormalised(v, dl, m)
                     /\ (m = dl /\ RLeq(RInt(1024), dl)) => v = RInt(100)
            /\ RLeq(v, RInt(100))

\* a tick below the window's peak: the peak is an earlier tick's rate and the
\* value lies strictly between 0 and 100
C8_Witness ==
    /\ Len(net_history) = 3
    /\ net_history[2] = RInt(2000000)
    /\ tick.dl = RInt(97152)
    /\ net_g.vals[2] = RInt(100)
    /\ net_g.vals[3] = Frac(3036, 625)

\* every pid of the group behind button `tag` has exited
GroupExited(tag) ==
    \A j \in 1..Len(proc_data[tag + 1].pids) :
        proc_data[tag + 1].pids[j] \notin alive

\* every attempt of a kill log hit a process that no longer exists
AllGone(log) ==
    /\ log # <<>>
    /\ \A i \in 1..Len(log) : log[i].result = "ProcessLookupError"

\* two calls in a row with the same valid tag, each finding its pids gone
KilledTwiceAfterExit ==
    /\ kill.tag # None
    /\ kill.tag[1] < Len(proc_data)
    /\ GroupExited(kill.tag[1])
    /\ kill.before # None
    /\ AllGone(kill.log)
    /\ AllGone(kill.before[1].log)

\* C9: onKillProc_ called twice with the same index, every pid of the group
\* having exited already, raises no error on either call and leaves the
\* stored process list unchanged.
C9_KillTwiceNoError ==
    /\ [](KilledTwiceAfterExit =>
            /\ kill.raised = NoException
            /\ kill.before[1].raised = NoException)
    /\ [][\A tag \in 0..MaxTag :
            (onKillProc_(tag) /\ tag < Len(proc_data) /\ GroupExited(tag))
               => (proc_data' = proc_data /\ kill'.raised = NoException
                   /\ alive' = alive)]_vars

\* the second of two kills of the chrome group after both its pids exited
C9_Witness ==
    /\ KilledTwiceAfterExit
    /\ Len(kill.log) = 2
    /\ Len(kill.before[1].log) = 2
    /\ kill.raised = NoException

\* C10: a kill on a valid index attempts SIGTERM on every pid of the group,
\* in order; a permission-denied or no-such-process failure on one pid is
\* swallowed and the remaining pids are still attempted.
C10_KillAttemptsAll ==
    (kill.tag # None /\ kill.tag[1] < Len(proc_data)) =>
        LET pids == proc_data[kill.tag[1] + 1].pids
        IN  /\ Len(kill.log) = Len(pids)
            /\ \A i \in 1..Len(pids) : kill.log[i].pid = pids[i]
            /\ kill.raised = NoException

\* partial termination: pid 1 refuses the signal (permission denied), pid 2
\* of the same group still receives it
C10_Witness ==
    /\ kill.tag # None
    /\ kill.tag[1] < Len(proc_data)
    /\ kill.log = << [pid |-> 1, result |-> "PermissionError"],
                     [pid |-> 2, result |-> "delivered"] >>
    /\ 2 \notin alive

\* the names of an enumeration
NamesOf(raw) == {raw[i].name : i \in 1..Len(raw)}

\* `view` holds the first (at most cap) groups of raw whose summed cpu
\* exceeds threshold, in non-increasing order of cpu
ViewRight(view, raw, threshold, cap) ==
    LET eligible == {n \in NamesOf(raw) : RawCpuOf(raw, n) > threshold}
        shown    == {view[k].name : k \in 1..Len(view)}
    IN  /\ Len(view) = Min(cap, Cardinality(eligible))
        /\ Cardinality(shown) = Len(view)
        /\ shown \subseteq eligible
        /\ \A k \in 1..Len(view) : view[k].cpu = RawCpuOf(raw, view[k].name)
        /\ \A k \in 1..Len(view) - 1 : view[k].cpu >= view[k + 1].cpu
        /\ \A n \in eligible \ shown :
              \A k \in 1..Len(view) : view[k].cpu >= RawCpuOf(raw, n)

\* the groups of top5 that pass the process list's threshold lead the
\* process list, in the same order
SameOrder(top, procs) ==
    LET listed == SelectSeq(top, IsListed)
    IN  /\ Len(listed) <= Len(procs)
        /\ \A k \in 1..Len(listed) : /\ listed[k].name = procs[k].name
                                     /\ listed[k].cpu = procs[k].cpu

\* C11: of the groups of one enumeration, sorted by descending summed cpu,
\* the top-5 view holds exactly the first (at most 5) with cpu > 0 and the
\* process list exactly the first (at most 30) with cpu > 0.05; each view is
\* in non-increasing order of cpu and holds no group below its threshold; the
\* two views agree on the order of the groups they share.
C11_ViewsRight ==
    /\ ViewRight(tick.top, tick.raw, 0, 5)
    /\ ViewRight(proc_data, tick.raw, 5, MAX_PROC_ROWS)
    /\ SameOrder(tick.top, proc_data)

\* both views were cut: more than 30 groups pass 0.05, the list holds 30 and
\* the top-5 view holds 5
C11_Witness ==
    /\ Cardinality({n \in NamesOf(tick.raw) : RawCpuOf(tick.raw, n) > 5}) > 30
    /\ Len(proc_data) = 30
    /\ Len(tick.top) = 5
    /\ tick.top[1].cpu > tick.top[5].cpu

\* the texts a disk entry shows after a successful query of its mount
ShowsUsage(e) ==
    IF e.mp = "/"
      THEN /\ e.name_lbl = "/"
           /\ e.avail_lbl = "Avail 200.0 GB"
           /\ e.detail_lbl = "Used 300.0 / 500.0 GB"
           /\ e.pct_lbl = "Usage 60.0 %"
           /\ e.chart = [pct |-> 600, avail |-> RInt(200)]
      ELSE /\ e.name_lbl = "Backup"
           /\ e.avail_lbl = "Avail 0.5 GB"
           /\ e.detail_lbl = "Used 1.5 / 2.0 GB"
           /\ e.pct_lbl = "Usage 75.0 %"
           /\ e.chart = [pct |-> 750, avail |-> Frac(1, 2)]

\* the last tick ran its other steps to the end: the process list, the CPU,
\* RAM and network samples and the network baseline are those of this tick
StepsCompleted ==
    /\ proc_data = scan_processes(tick.raw).proc_list
    /\ Len(inserted.cpu) = gpu_tick
    /\ Len(inserted.ram) = gpu_tick
    /\ Len(inserted.net) = gpu_tick
    /\ lbl.cpu = "CPU    12.5 %"
    /\ lbl.ram = "RAM   4.0/8.0 GB (50.0%)"
    /\ prev_net = <<tick.recv, tick.sent>>
    /\ prev_net_time = tick.now

\* C12: whatever is unavailable in a tick (the battery, the GPU value, any
\* subset of the mounts), the tick runs its other steps to the end, each
\* unavailable field shows "N/A", and every mount whose query succeeds shows
\* the usage read in that tick.
C12_Degrades ==
    gpu_tick > 0 =>
        /\ StepsCompleted
        /\ tick.batt = None => lbl.batt = "Battery  N/A"
        /\ tick.batt # None => lbl.batt = "Battery  40%  ~1:30 left"
        /\ gpu_cache = None => lbl.gpu = "GPU   N/A"
        /\ gpu_cache # None => lbl.gpu = "GPU    59.0 %"
        /\ \A i \in 1..Len(disk_entries) :
              IF disk_entries[i].mp \in tick.diskfail
                THEN disk_entries[i].detail_lbl = "N/A"
                ELSE ShowsUsage(disk_entries[i])

\* the first mount fails in the first tick, with no battery and no GPU
\* value; the second mount is updated in that tick
C12_Witness ==
    /\ gpu_tick = 1
    /\ tick.batt = None /\ lbl.batt = "Battery  N/A"
    /\ lbl.gpu = "GPU   N/A"
    /\ tick.diskfail = {"/"}
    /\ disk_entries[1].detail_lbl = "N/A"
    /\ disk_entries[2].detail_lbl = "Used 1.5 / 2.0 GB"
    /\ Len(inserted.net) = 1

\* the GPU label shows the value v (None: unavailable)
ShowsGpu(v) ==
    IF v = None THEN lbl.gpu = "GPU   N/A"
    ELSE lbl.gpu = "GPU   " \o Fmt5_1(v[1]) \o " %"

\* C13: gpu_usage is called exactly on the ticks with an even 1-based
\* number, so never on the first; on the ticks in between the cache keeps
\* the result of the most recent call and that is the value shown; before
\* the first call the value is unavailable.
C13_GpuEveryOtherTick ==
    /\ [](gpu_tick > 0 =>
            /\ (tick.gpu_query # None) <=> (gpu_tick % 2 = 0)
            /\ tick.gpu_query # None => gpu_cache = tick.gpu_query[1]
            /\ gpu_tick < 2 => gpu_cache = None
            /\ ShowsGpu(gpu_cache))
    /\ [][gpu_tick' # gpu_tick =>
            /\ gpu_tick' = gpu_tick + 1
            /\ gpu_tick' % 2 = 1 => gpu_cache' = gpu_cache]_vars

\* the third tick shows the 14.0 % the second tick polled, and does not
\* call gpu_usage
C13_Witness ==
    /\ gpu_tick = 3
    /\ tick.gpu_query = None
    /\ gpu_cache = Some(140)
    /\ lbl.gpu = "GPU    14.0 %"

\* the position of the step a query belongs to, in the order battery,
\* process scan, CPU, RAM, GPU, network, disk
StepOf(call) ==
    CASE call = "sensors_battery" -> 1
      [] call = "process_iter"    -> 2
      [] call = "cpu_percent"     -> 3
      [] call = "virtual_memory"  -> 4
      [] call = "gpu_usage"       -> 5
      [] call \in {"net_io_counters", "time"} -> 6
      [] call = "disk_usage"      -> 7

\* how often a query occurs among the calls
CountCalls(calls, call) == Cardinality({i \in 1..Len(calls) : calls[i] = call})

\* C14: a tick queries the operating system in the order battery, process
\* scan, CPU, RAM, GPU (when due), network, disk (once per mount); it
\* enumerates the processes exactly once, and that one enumeration gives
\* both the view of the battery chart and legend and the stored process
\* list.
C14_TickOrder ==
    gpu_tick > 0 =>
        /\ \A i \in 1..Len(tick.calls) - 1 :
              StepOf(tick.calls[i]) <= StepOf(tick.calls[i + 1])
        /\ {StepOf(tick.calls[i]) : i \in 1..Len(tick.calls)}
             = (1..7) \ (IF tick.gpu_polled THEN {} ELSE {5})
        /\ CountCalls(tick.calls, "process_iter") = 1
        /\ CountCalls(tick.calls, "disk_usage") = Len(disk_entries)
        /\ tick.top = scan_processes(tick.raw).top5
        /\ proc_data = scan_processes(tick.raw).proc_list
        /\ batt_chart = chart_data(tick.top)
        /\ \A i \in 1..5 : lbl.legend[i] = legend_text(tick.top, i)

\* the second tick polls the GPU; its enumeration gives the chart two groups
\* and the process list the one group above 0.05
C14_Witness ==
    /\ gpu_tick = 2
    /\ Len(tick.calls) = 9
    /\ tick.calls[5] = "gpu_usage"
    /\ Len(tick.top) = 2
    /\ Len(batt_chart.segments) = 2
    /\ proc_data = << [name |-> "chrome", cpu |-> 6, pids |-> <<1, 2>>] >>

\* C15: handlers never run concurrently.  At most one handler is running at
\* any time; while one runs (the first tick that the launch calls itself
\* included) a due timer and a pending click wait, and nothing else starts
\* until it has returned; a tick changes the state only as the one running
\* handler; a kill runs alone and reads the process list that the last
\* completed tick stored.
C15_Serial ==
    /\ [](Len(runloop.running) <= 1)
    /\ [][(runloop.running # <<>> /\ runloop.running' # runloop.running)
            => runloop.running' = <<>>]_vars
    /\ [][gpu_tick' # gpu_tick => runloop.running = << "onTick_" >>]_vars
    /\ [][(kill' # kill /\ kill'.tag # None)
            => /\ runloop.running = << "onKillProc_" >>
               /\ gpu_tick > 0
               /\ proc_data = scan_processes(tick.raw).proc_list
               /\ proc_data' = proc_data]_vars

\* the second tick is executing, the timer has come due again and a Quit
\* click is waiting
C15_Witness ==
    /\ gpu_tick = 1
    /\ runloop.running = << "onTick_" >>
    /\ runloop.timer_due
    /\ runloop.clicks # <<>>

\* the last tick computed, showed and recorded a rate of exactly 0 in both
\* directions
ZeroRates ==
    /\ tick.dl = RInt(0) /\ tick.ul = RInt(0)
    /\ lbl.net = [dl |-> "0 B/s", ul |-> "0 B/s"]
    /\ net_history[Len(net_history)] = RInt(0)
    /\ tick.net_pct = RInt(0)

\* C16: on the first tick after startup (no previous counters) and on any
\* tick whose elapsed time since the previous tick is <= 0, the download and
\* the upload rate are exactly 0, whatever the counters read.
C16_ZeroRateBranches ==
    /\ gpu_tick = 1 => ~tick.had_prev
    /\ (gpu_tick > 0 /\ (~tick.had_prev \/ tick.dt <= 0)) => ZeroRates

\* the clock stepped back by a second while both counters grew
C16_Witness ==
    /\ tick.had_prev
    /\ tick.dt = 0 - 1
    /\ tick.recv > tick.prev_recv /\ tick.sent > tick.prev_sent
    /\ tick.dl = RInt(0) /\ tick.ul = RInt(0)

\* C17: after every tick, whichever branch computed the rate, the stored
\* baseline is the pair of counters and the time read in that tick; so each
\* tick after the first measures against the reading of the tick right
\* before it.
C17_BaselineAlwaysStored ==
    /\ [](gpu_tick > 0 => /\ prev_net = <<tick.recv, tick.sent>>
                          /\ prev_net_time = tick.now)
    /\ [][(gpu_tick' # gpu_tick /\ gpu_tick > 0)
            => /\ tick'.had_prev
               /\ tick'.prev_recv = tick.recv
               /\ tick'.prev_sent = tick.sent
               /\ tick'.dt = tick'.now - tick.now
               /\ tick'.dt > 0 =>
                     /\ tick'.dl = Frac(tick'.recv - tick.recv, tick'.dt)
                     /\ tick'.ul = Frac(tick'.sent - tick.sent, tick'.dt)]_vars

\* a tick on the elapsed = 0 branch stored the counters it read, which
\* differ from those of the tick before
C17_Witness ==
    /\ tick.had_prev
    /\ tick.dt = 0
    /\ tick.recv # tick.prev_recv
    /\ prev_net = <<tick.recv, tick.sent>>
    /\ prev_net_time = tick.now
    /\ gpu_tick = 3

\* the pids of a sequence of pids or of kill attempts
PidSet(pids) == {pids[j] : j \in 1..Len(pids)}

\* C18: a kill with index i signals only pids of entry i of the process
\* list that the most recent completed tick stored; with i not less than
\* the length of that list it signals nothing; either way it leaves the
\* stored process list, the network baseline, the GPU cache and every
\* history buffer as they were.
C18_KillFrame ==
    [][\A tag \in 0..MaxTag :
          onKillProc_(tag) =>
            /\ proc_data = scan_processes(tick.raw).proc_list
            /\ tag < Len(proc_data) =>
                  /\ {kill'.log[k].pid : k \in 1..Len(kill'.log)}
                        \subseteq PidSet(proc_data[tag + 1].pids)
                  /\ alive \ alive' \subseteq PidSet(proc_data[tag + 1].pids)
            /\ tag >= Len(proc_data) => (kill'.log = <<>> /\ alive' = alive)
            /\ UNCHANGED << proc_data, prev_net, prev_net_time, gpu_tick,
                            gpu_cache, net_history, cpu_g, ram_g, gpu_g,
                            net_g >>]_vars

\* the button of the third row was pressed while the list held two groups:
\* nothing was signalled
C18_Witness ==
    /\ kill.tag = Some(2)
    /\ Len(proc_data) = 2
    /\ kill.log = <<>>
    /\ alive = Pids
    /\ Len(net_history) = 1

\* the Quit button of row i (0-based, its tag) can be clicked
QuitVisible(i) ==
    /\ current_tab = 2
    /\ ~collapsed
    /\ ~hidden.proc[BtnView(i)]

\* C19: after any sequence of ticks, tab changes and collapse/expand
\* toggles, every row whose Quit button is visible has an index below the
\* length of the stored process list, and shows the name of the stored
\* entry at that index.
C19_VisibleQuitAddressesRow ==
    \A i \in 0..(MAX_PROC_ROWS - 1) :
        QuitVisible(i) =>
            /\ i < Len(proc_data)
            /\ ~hidden.proc[NameView(i)]
            /\ proc_slots[i + 1].name_lbl = proc_data[i + 1].name

\* on the process tab, after the list shrank from two groups to one: the
\* first row's button is visible, the second row still holds the text of
\* the former second group and is hidden
C19_Witness ==
    /\ gpu_tick = 2
    /\ QuitVisible(0)
    /\ ~QuitVisible(1)
    /\ Len(proc_data) = 1
    /\ proc_slots[1].name_lbl = "chrome"
    /\ proc_slots[2].name_lbl = "finder"

=============================================================================
